---- MODULE Spec2Model ----
(***************************************************************************)
(* Model of the CAMS air-quality worker (src/index.js): one fetch event,   *)
(* the validation of its lat/lng parameters, the twelve concurrent         *)
(* GetFeatureInfo calls joined by Promise.all, the four-pollutant index    *)
(* and its band, and the listener that stamps the Expires and CORS         *)
(* headers or turns a thrown error into a 400 response.                    *)
(*                                                                         *)
(* JavaScript values are tagged records, so that null, undefined, NaN and  *)
(* numbers stay distinct.  A number is a fraction num/den in lowest terms.   *)
(* A string that the code only passes on is a TLA+ string; a string the    *)
(* code parses (a search parameter) is a sequence of characters; an error  *)
(* message is the sequence of its words.  The bounding box of the query    *)
(* (offset, lines 52-65 and 73-76) needs a cosine and is not modelled: a   *)
(* call's URL is kept as its layer and the coordinate it was built from.   *)
(* The whitespace of the 200 body (pretty printing, line 207) is not       *)
(* modelled: the body is the JSON value that JSON.stringify writes.        *)
(***************************************************************************)
EXTENDS Integers, Sequences, FiniteSets, TLC

VARIABLES request, upstream, pc, calls, thrown, response, d, clock

vars == <<request, upstream, pc, calls, thrown, response, d, clock>>

----------------------------------------------------------------------------
(* Bounds of the model. *)

\* Longest lat / lng parameter, in characters.
MaxLen == 2
\* Most upstream calls that fail (transport error or non-2xx) in one request.
MaxFail == 2
\* Most upstream calls that answer 2xx with a body of an unexpected shape.
MaxOdd == 1
\* Upstream readings of the four index pollutants range over 10 * (-1 .. MaxK).
MaxK == 10
\* Days over which the listener's first clock read ranges.
Days == 1
\* Clock resolution: instants per hour; instant 0 of an hour is hh:00:00.
TicksPerHour == 2
\* Most instants the clock advances between the listener's two clock reads.
MaxAdvance == 1

----------------------------------------------------------------------------
(* JavaScript values. *)

Undefined == [tag |-> "undefined"]
Null == [tag |-> "null"]
NaN == [tag |-> "nan"]
Throw == [tag |-> "throw"]
Str(s) == [tag |-> "str", s |-> s]
Obj(f) == [tag |-> "obj", f |-> f]
Arr(s) == [tag |-> "arr", s |-> s]
NoFields == [k \in {} |-> Undefined]

Abs(n) == IF n < 0 THEN -n ELSE n

RECURSIVE GCD(_, _)
GCD(a, b) == IF b = 0 THEN a ELSE GCD(b, a % b)

\* The number n/den (den > 0), in lowest terms.
Num(n, den) ==
  LET g == GCD(Abs(n), den)
  IN [tag |-> "num", num |-> n \div g, den |-> den \div g]

IsNumber(v) == v.tag = "num"

\* Property access v[k]: a TypeError on undefined and null, undefined for a
\* property that is not there.
GetProp(v, k) ==
  IF v.tag \in {"throw", "undefined", "null"} THEN Throw
  ELSE IF v.tag = "obj" /\ k \in DOMAIN v.f THEN v.f[k]
  ELSE Undefined

\* Element access v[i], i counted from 0.
GetIndex(v, i) ==
  IF v.tag \in {"throw", "undefined", "null"} THEN Throw
  ELSE IF v.tag = "arr" /\ (i + 1) \in DOMAIN v.s THEN v.s[i + 1]
  ELSE Undefined

----------------------------------------------------------------------------
(* The catalog, lines 5-18. *)

Keys ==
  <<"Pollen-Birch", "CO", "Pollen-Grass", "NH3", "NMVOC", "NO",
    "NO2", "O3", "PANs", "PM10", "PM2.5", "SO2">>

Types == {Keys[i] : i \in DOMAIN Keys}

atmosphereTypeToLayer ==
  [t \in Types |->
     CASE t = "Pollen-Birch" -> "composition_europe_pol_birch_forecast_surface"
       [] t = "CO" -> "composition_europe_co_forecast_surface"
       [] t = "Pollen-Grass" -> "composition_europe_pol_grass_forecast_surface"
       [] t = "NH3" -> "composition_europe_nh3_forecast_surface"
       [] t = "NMVOC" -> "composition_europe_nmvoc_forecast_surface"
       [] t = "NO" -> "composition_europe_no_forecast_surface"
       [] t = "NO2" -> "composition_europe_no2_forecast_surface"
       [] t = "O3" -> "composition_europe_o3_forecast_surface"
       [] t = "PANs" -> "composition_europe_pans_forecast_surface"
       [] t = "PM10" -> "composition_europe_pm10_forecast_surface"
       [] t = "PM2.5" -> "composition_europe_pm2p5_forecast_surface"
       [] t = "SO2" -> "composition_europe_so2_forecast_surface"]

\* The four readings the index averages, in the order of lines 174-177.
AqiKeys == <<"NO2", "PM10", "O3", "PM2.5">>

AqiTypes == {AqiKeys[i] : i \in DOMAIN AqiKeys}

----------------------------------------------------------------------------
(* The request: url.searchParams.get gives null for a missing parameter    *)
(* and the parameter's text otherwise.                                     *)

Chars == {"1", "-", ".", "x"}

Digits == {"0", "1", "2", "3", "4", "5", "6", "7", "8", "9"}

DigitValue(c) ==
  CASE c = "0" -> 0 [] c = "1" -> 1 [] c = "2" -> 2 [] c = "3" -> 3
    [] c = "4" -> 4 [] c = "5" -> 5 [] c = "6" -> 6 [] c = "7" -> 7
    [] c = "8" -> 8 [] c = "9" -> 9

\* How many digits s holds from position i on.
RECURSIVE DigitRun(_, _)
DigitRun(s, i) ==
  IF i \in DOMAIN s /\ s[i] \in Digits THEN 1 + DigitRun(s, i + 1) ELSE 0

\* The value of the n digits of s from position i on, after the value acc.
RECURSIVE DigitsValue(_, _, _, _)
DigitsValue(s, i, n, acc) ==
  IF n = 0 THEN acc
  ELSE DigitsValue(s, i + 1, n - 1, 10 * acc + DigitValue(s[i]))

RECURSIVE Pow10(_)
Pow10(n) == IF n = 0 THEN 1 ELSE 10 * Pow10(n - 1)

\* The longest prefix of s that is a decimal literal: sign, integer digits,
\* and a point with its fraction digits.  (Leading white space, exponents
\* and "Infinity" need characters that Chars does not hold.)
Literal(s) ==
  LET signed == 1 \in DOMAIN s /\ s[1] \in {"-", "+"}
      start == IF signed THEN 2 ELSE 1
      ni == DigitRun(s, start)
      dot == (start + ni) \in DOMAIN s /\ s[start + ni] = "."
      nf == IF dot THEN DigitRun(s, start + ni + 1) ELSE 0
      int == DigitsValue(s, start, ni, 0)
      all == DigitsValue(s, start + ni + 1, nf, int)
  IN [found |-> ni + nf > 0,
      len |-> (start - 1) + ni + (IF dot THEN 1 + nf ELSE 0),
      value |-> Num((IF signed /\ s[1] = "-" THEN -1 ELSE 1) * all, Pow10(nf))]

\* parseFloat(p): the number its text begins with, NaN when it begins with
\* none; null is parsed as the text "null".
ParseFloat(p) ==
  IF p.tag = "null" THEN NaN
  ELSE IF Literal(p.s).found THEN Literal(p.s).value
  ELSE NaN

RECURSIVE SeqsUpTo(_)
SeqsUpTo(n) ==
  IF n = 0 THEN {<<>>}
  ELSE LET shorter == SeqsUpTo(n - 1)
       IN shorter \cup {Append(s, c) : s \in shorter, c \in Chars}

\* Every value of a search parameter: missing, or a text of at most MaxLen.
Params == {Null} \cup {Str(s) : s \in SeqsUpTo(MaxLen)}

\* The parameters of the requests that the specifications of the upstream
\* calls start from: missing, or "1".
PlainParams == {Null, Str(<<"1">>)}

----------------------------------------------------------------------------
(* Error messages, as their words. *)

LatMessage ==
  <<"You", "did", "not", "provide", "a", "latitude", "value", "in", "the",
    "\"lat\"", "search", "parameter.">>

\* The longitude message pasted from the latitude check without its word changed.
LngMessagePasted == LatMessage

LngMessage ==
  <<"You", "did", "not", "provide", "a", "longitude", "value", "in", "the",
    "\"lat\"", "search", "parameter.">>

CouldNotFetch == <<"Could", "not", "fetch", "data">>

\* The message of the error a rejected fetch carries: the transport's own.
TransportMessages == {<<"Network", "connection", "lost.">>}

Mentions(msg, word) == \E i \in DOMAIN msg : msg[i] = word

----------------------------------------------------------------------------
(* What the upstream service answers to the call for one layer: a          *)
(* transport error, or a status with a body.                               *)

NoMessage == <<>>

Unparseable == [tag |-> "unparseable"]

TransportError(msg) == [error |-> msg, status |-> 0, body |-> Unparseable]

Answer(status, body) == [error |-> NoMessage, status |-> status, body |-> body]

\* Response.ok
Ok(status) == status \in 200..299

Field(k, v) == k :> v

\* {"Probes": [{"Value": value}]}
Probed(value) == Obj(Field("Probes", Arr(<<Obj(Field("Value", value))>>)))

WellFormed(data, unit) ==
  Probed(Obj(Field("Data", Num(data, 1)) @@ Field("Unit", Str(unit))))

\* Bodies of a 2xx answer that are not of the expected shape.
OddBodies ==
  { Unparseable,
    Obj(NoFields),
    Obj(Field("Probes", Arr(<<>>))),
    Obj(Field("Probes", Arr(<<Obj(NoFields)>>))),
    Probed(Obj(NoFields)) }

IndexOf(t) == CHOOSE i \in DOMAIN Keys : Keys[i] = t

\* The readings the service holds for the point asked about.
DataOf(t) ==
  CASE t = "NO2" -> 40
    [] t = "PM10" -> 20
    [] t = "O3" -> 60
    [] t = "PM2.5" -> 10
    [] OTHER -> IndexOf(t)

UnitOf(t) == IF t \in {"Pollen-Birch", "Pollen-Grass"} THEN "grains m**-3" ELSE "kg m**-3"

Nominal == [t \in Types |-> Answer(200, WellFormed(DataOf(t), UnitOf(t)))]

Failures ==
  {Answer(500, Unparseable)} \cup {TransportError(m) : m \in TransportMessages}

\* The same, but for at most n layers, each of which gets an answer of alt.
RECURSIVE Scenarios(_, _)
Scenarios(n, alt) ==
  IF n = 0 THEN {Nominal}
  ELSE LET fewer == Scenarios(n - 1, alt)
       IN fewer \cup {[f EXCEPT ![t] = a] : f \in fewer, t \in Types, a \in alt}

OddAnswers == {Answer(200, b) : b \in OddBodies}

----------------------------------------------------------------------------
(* get, lines 71-133. *)

Reading(type, value, unit) == [type |-> type, value |-> value, unit |-> unit]

\* The URL of the call for one layer (lines 82-101), without its bounding box.
Url(coord, type) == [layer |-> atmosphereTypeToLayer[type], coord |-> coord]

\* Lines 118-132: the reading that get returns for a 2xx answer.
Extract(type, body) ==
  LET json == IF body.tag = "unparseable" THEN Throw ELSE body
      probe == GetIndex(GetProp(json, "Probes"), 0)
      value == GetProp(GetProp(probe, "Value"), "Data")
      unit == GetProp(GetProp(probe, "Value"), "Unit")
  IN IF value.tag = "throw" \/ unit.tag = "throw"
     THEN Reading(type, Null, Null)
     ELSE Reading(type, value, unit)

\* Lines 112-132: how the promise of get settles on the upstream's answer.
Get(type, answer) ==
  IF answer.error # NoMessage
  THEN [rejected |-> TRUE, message |-> answer.error]
  ELSE IF ~Ok(answer.status)
  THEN [rejected |-> TRUE, message |-> CouldNotFetch]
  ELSE [rejected |-> FALSE, reading |-> Extract(type, answer.body)]

----------------------------------------------------------------------------
(* handle after the join, lines 159-214. *)

\* p + c, were null to give NaN as undefined does.
AddNullIsNaN(p, c) ==
  IF p.tag = "num" /\ c.tag = "num"
  THEN Num(p.num * c.den + c.num * p.den, p.den * c.den)
  ELSE NaN

\* p + c for a number (or NaN) p: null counts as 0, undefined gives NaN.
Add(p, c) ==
  CASE p.tag = "nan" /\ c.tag \in {"num", "null", "undefined", "nan"} -> NaN
    [] p.tag = "num" /\ c.tag = "num" ->
         Num(p.num * c.den + c.num * p.den, p.den * c.den)
    [] p.tag = "num" /\ c.tag = "null" -> p
    [] p.tag = "num" /\ c.tag \in {"undefined", "nan"} -> NaN

Divide(x, n) == IF x.tag = "nan" THEN NaN ELSE Num(x.num, x.den * n)

\* x <= k in the place of x < k.
AtMost(x, k) == IsNumber(x) /\ x.num <= k * x.den

\* x < k and x >= k for an integer k: false when x is NaN.
LessThan(x, k) == IsNumber(x) /\ x.num < k * x.den

AtLeast(x, k) == IsNumber(x) /\ x.num >= k * x.den

RECURSIVE Reduce(_, _, _)
Reduce(arr, i, acc) ==
  IF i > Len(arr) THEN acc ELSE Reduce(arr, i + 1, Add(acc, arr[i]))

\* Line 171.
Average(arr) == Divide(Reduce(arr, 1, Num(0, 1)), Len(arr))

\* The checks as an else-if chain: the first that holds gives the name.
QualitativeNameFirstMatch(aqi) ==
  IF AtLeast(aqi, 100) THEN Str("very_high")
  ELSE IF LessThan(aqi, 100) THEN Str("high")
  ELSE IF LessThan(aqi, 75) THEN Str("medium")
  ELSE IF LessThan(aqi, 50) THEN Str("low")
  ELSE IF LessThan(aqi, 25) THEN Str("very_low")
  ELSE Undefined

\* Lines 180-200: each check that holds overwrites the name.
QualitativeName(aqi) ==
  LET q0 == Undefined
      q1 == IF AtLeast(aqi, 100) THEN Str("very_high") ELSE q0
      q2 == IF LessThan(aqi, 100) THEN Str("high") ELSE q1
      q3 == IF LessThan(aqi, 75) THEN Str("medium") ELSE q2
      q4 == IF LessThan(aqi, 50) THEN Str("low") ELSE q3
      q5 == IF LessThan(aqi, 25) THEN Str("very_low") ELSE q4
  IN q5

\* Lines 159-169: the readings keyed by their type.
RECURSIVE ByType(_, _, _)
ByType(data, i, acc) ==
  IF i > Len(data) THEN acc
  ELSE ByType(data, i + 1,
              Field(data[i].type,
                    Field("unit", data[i].unit) @@ Field("value", data[i].value))
              @@ acc)

\* Lines 159-205.
ResponseData(data) ==
  LET byType == ByType(data, 1, NoFields)
      aqi == Average(<<byType["NO2"]["value"], byType["PM10"]["value"],
                       byType["O3"]["value"], byType["PM2.5"]["value"]>>)
  IN Field("aqi", Field("qualitativeName", QualitativeName(aqi))
                  @@ Field("value", aqi))
     @@ byType

\* JSON.stringify of an object of primitives: a property that is undefined
\* is left out and NaN is written as null.
StringifyFields(o) ==
  [k \in {j \in DOMAIN o : o[j].tag # "undefined"} |->
     IF o[k].tag = "nan" THEN Null ELSE o[k]]

Stringify(o) == [k \in DOMAIN o |-> StringifyFields(o[k])]

NoResponse == [status |-> 0, body |-> <<>>, headers |-> NoFields]

\* Lines 209-214.
OkResponse(data) ==
  [status |-> 200,
   body |-> Stringify(ResponseData(data)),
   headers |-> Field("content-type", "application/json")]

\* Lines 217-221: a text body gets the text/plain content type.
errorResponse(msg) ==
  [status |-> 400,
   body |-> msg,
   headers |-> Field("content-type", "text/plain;charset=UTF-8")]

----------------------------------------------------------------------------
(* Dates: an instant is a count of ticks since 00:00:00 UTC of day 0.      *)

TicksPerDay == 24 * TicksPerHour

getUTCHours(t) == (t \div TicksPerHour) % 24

\* Date.setUTCHours: an hour past 23 rolls into the following day.
setUTCHours(t, h) ==
  (t \div TicksPerDay) * TicksPerDay + h * TicksPerHour + (t % TicksPerHour)

\* setUTCMinutes(0) and setUTCSeconds(0).
setUTCMinutesSeconds0(t) == t - (t % TicksPerHour)

\* Lines 223-227, on the instant its new Date() reads.
nextHour(now) ==
  LET hh == getUTCHours(now)
  IN IF hh < 24 THEN hh + 1 ELSE 0

FirstReads == 0 .. (Days * TicksPerDay - 1)

----------------------------------------------------------------------------
(* The state.                                                              *)
(*   request   the search parameters lat and lng of event.request.url      *)
(*   upstream  what the service answers to the call for each layer         *)
(*   pc        where the listener and handle stand                         *)
(*   calls     the twelve get calls: idle, fetching, fulfilled or rejected *)
(*   thrown    the message of the error handle threw                       *)
(*   response  the listener's response                                     *)
(*   d         the Date of line 236                                        *)
(*   clock     the instant of the latest new Date()                        *)

IdleCall == [pc |-> "idle", url |-> NoFields, reading |-> NoFields]

FetchingCall(coord, t) ==
  [pc |-> "fetching", url |-> Url(coord, t), reading |-> NoFields]

\* Promise.all's value: the readings in the order of the keys (lines 137-140).
atmosphereData(cs) == [i \in DOMAIN Keys |-> cs[Keys[i]].reading]

AllFulfilled(cs) == \A t \in Types : cs[t].pc = "fulfilled"

\* Lines 144-158, up to the first await: the parameters are parsed, and
\* either handle throws or getAll starts the twelve calls.
HandleStart ==
  /\ pc = "dispatched"
  /\ LET lat == ParseFloat(request.lat)
         lng == ParseFloat(request.lng)
     IN IF lat.tag = "nan"
        THEN /\ thrown' = LatMessage
             /\ pc' = "threw"
             /\ calls' = calls
        ELSE IF lng.tag = "nan"
        THEN /\ thrown' = LngMessage
             /\ pc' = "threw"
             /\ calls' = calls
        ELSE /\ calls' = [t \in Types |-> FetchingCall(<<lng, lat>>, t)]
             /\ pc' = "awaiting"
             /\ thrown' = thrown
  /\ UNCHANGED <<request, upstream, response, d, clock>>

\* The call for layer t settles on the upstream's answer (lines 112-132).
\* A rejection rejects Promise.all and with it handle: the join does not
\* wait for the calls still in flight.  The last fulfilment fulfils the join.
\* Nothing outside get observes it between its two awaits, so the settling
\* of its promise is one step.
GetSettles(t) ==
  /\ pc = "awaiting"
  /\ calls[t].pc = "fetching"
  /\ LET result == Get(t, upstream[t])
     IN IF result.rejected
        THEN /\ calls' = [calls EXCEPT ![t].pc = "rejected"]
             /\ thrown' = result.message
             /\ pc' = "threw"
        ELSE /\ calls' = [calls EXCEPT ![t].pc = "fulfilled",
                                       ![t].reading = result.reading]
             /\ thrown' = thrown
             /\ pc' = IF AllFulfilled(calls') THEN "joined" ELSE "awaiting"
  /\ UNCHANGED <<request, upstream, response, d, clock>>

\* Lines 158-214: handle resumes with the twelve readings and returns.
HandleReturns ==
  /\ pc = "joined"
  /\ response' = OkResponse(atmosphereData(calls))
  /\ pc' = "returned"
  /\ UNCHANGED <<request, upstream, calls, thrown, d, clock>>

\* Line 236: the listener resumes with handle's response and reads the clock.
ListenerResumes ==
  /\ pc = "returned"
  /\ \E now \in FirstReads :
       /\ d' = now
       /\ clock' = now
  /\ pc' = "dated"
  /\ UNCHANGED <<request, upstream, calls, thrown, response>>

\* Lines 238-250: nextHour reads the clock again, no earlier than line 236
\* did; the headers are set and the response is sent.
ListenerResponds ==
  /\ pc = "dated"
  /\ \E now \in clock .. (clock + MaxAdvance) :
       LET expires == setUTCMinutesSeconds0(setUTCHours(d, nextHour(now)))
       IN /\ d' = expires
          /\ clock' = now
          /\ response' =
               [response EXCEPT
                  !.headers = Field("access-control-request-method", "GET")
                              @@ Field("access-control-allow-origin", "*")
                              @@ Field("expires", expires)
                              @@ response.headers]
  /\ pc' = "responded"
  /\ UNCHANGED <<request, upstream, calls, thrown>>

\* Lines 246-250: the listener catches what handle threw.
ListenerCatches ==
  /\ pc = "threw"
  /\ response' = errorResponse(thrown)
  /\ pc' = "responded"
  /\ UNCHANGED <<request, upstream, calls, thrown, d, clock>>

Dispatched(requests, scenarios) ==
  /\ request \in requests
  /\ upstream \in scenarios
  /\ pc = "dispatched"
  /\ calls = [t \in Types |-> IdleCall]
  /\ thrown = NoMessage
  /\ response = NoResponse
  /\ d = Undefined
  /\ clock = Undefined

PlainRequests == [lat : PlainParams, lng : PlainParams]

Next ==
  \/ HandleStart
  \/ \E t \in Types : GetSettles(t)
  \/ HandleReturns
  \/ ListenerResumes
  \/ ListenerResponds
  \/ ListenerCatches

\* A fetch event whose upstream calls fail, at most MaxFail of them.
Init == Dispatched(PlainRequests, Scenarios(MaxFail, Failures))

Spec == Init /\ [][Next]_vars

\* A fetch event whose upstream calls all answer 2xx, at most MaxOdd of them
\* with a body of an unexpected shape.
InitParse == Dispatched(PlainRequests, Scenarios(MaxOdd, OddAnswers))

SpecParse == InitParse /\ [][Next]_vars

\* The validation alone: every lat and lng text, up to the start of the calls.
InitValidate == Dispatched([lat : Params, lng : Params], {Nominal})

NextValidate ==
  \/ HandleStart
  \/ ListenerCatches

SpecValidate == InitValidate /\ [][NextValidate]_vars

\* The answers for one of the four index pollutants: a reading of
\* 10 * (-1 .. MaxK), a body that cannot be parsed, a Value without Data.
AqiAnswers(t) ==
  {Answer(200, WellFormed(10 * k, UnitOf(t))) : k \in -1 .. MaxK}
  \cup {Answer(200, Unparseable), Answer(200, Probed(Obj(NoFields)))}

PlainRequest == [lat |-> Str(<<"1">>), lng |-> Str(<<"1">>)]

PlainCoord == <<ParseFloat(PlainRequest.lng), ParseFloat(PlainRequest.lat)>>

\* The index alone: the join has just been fulfilled, the four index
\* pollutants with any of their answers.
InitAqi ==
  /\ request = PlainRequest
  /\ \E f \in [AqiTypes -> UNION {AqiAnswers(t) : t \in AqiTypes}] :
       upstream = [t \in Types |-> IF t \in AqiTypes THEN f[t] ELSE Nominal[t]]
  /\ pc = "joined"
  /\ calls = [t \in Types |->
                [pc |-> "fulfilled",
                 url |-> Url(PlainCoord, t),
                 reading |-> Get(t, upstream[t]).reading]]
  /\ thrown = NoMessage
  /\ response = NoResponse
  /\ d = Undefined
  /\ clock = Undefined

NextAqi == HandleReturns

SpecAqi == InitAqi /\ [][NextAqi]_vars

----------------------------------------------------------------------------
(* What the claims speak of. *)

Responded == pc = "responded"

\* The request passed the validation: its calls were started.
Started == \A t \in Types : calls[t].pc # "idle"

NoCallIssued == \A t \in Types : calls[t].pc = "idle"

GenericFailure == response.status = 400 /\ response.body = CouldNotFetch

\* The value n/m as a number of the body: v = n/m.
Equals(v, n, m) == IsNumber(v) /\ v.num * m = n * v.den

\* The band of the mutually exclusive ranges.
Band(v) ==
  IF v.num >= 100 * v.den THEN "very_high"
  ELSE IF v.num >= 75 * v.den THEN "high"
  ELSE IF v.num >= 50 * v.den THEN "medium"
  ELSE IF v.num >= 25 * v.den THEN "low"
  ELSE "very_low"

\* The aqi entry of a 200 body.
Aqi == response.body["aqi"]

AqiUnset == "qualitativeName" \notin DOMAIN Aqi

AqiNamed(name) ==
  "qualitativeName" \in DOMAIN Aqi /\ Aqi["qualitativeName"] = Str(name)

\* JSON.stringify writes NaN as null: this is how a NaN index reads in the body.
AqiIsNaN == "value" \in DOMAIN Aqi /\ Aqi["value"] = Null

ReadingOf(t) == calls[t].reading.value

AnyReading(tag) == \E t \in AqiTypes : ReadingOf(t).tag = tag

\* A reading as the sum counts it when null counts as 0 (readings of the
\* model are whole numbers).
Counted(t) == IF IsNumber(ReadingOf(t)) THEN ReadingOf(t).num ELSE 0

CountedSum == Counted("NO2") + Counted("PM10") + Counted("O3") + Counted("PM2.5")

\* C1: for a request with valid lat and lng of which at least one upstream
\* call returns a non-2xx status, the response has status 400 and the body
\* "Could not fetch data", whatever the order the calls complete in.
C1NonOkIsGeneric ==
  (Responded /\ Started
     /\ \E t \in Types : upstream[t].error = NoMessage /\ ~Ok(upstream[t].status))
  => GenericFailure

\* C2: when an upstream call fails at transport level, the response has
\* status 400 and the generic body "Could not fetch data".
C2TransportIsGeneric ==
  (Responded /\ \E t \in Types : calls[t].pc = "rejected" /\ upstream[t].error # NoMessage)
  => GenericFailure

Malformed(t) == upstream[t].body \in OddBodies

EntryIs(t, value, unit) ==
  /\ DOMAIN response.body[t] = {"unit", "value"}
  /\ response.body[t]["value"] = value
  /\ response.body[t]["unit"] = unit

\* C3: when all twelve calls succeed and exactly one layer's body is
\* malformed or lacks the expected shape, the response is a 200 whose entry
\* for that pollutant has value null and unit null, every other entry holding
\* the value and unit of its own layer.
C3MalformedIsNull ==
  (Responded /\ Started /\ \E t \in Types : Malformed(t))
  => /\ response.status = 200
     /\ \A t \in Types :
          IF Malformed(t) THEN EntryIs(t, Null, Null)
          ELSE EntryIs(t, Num(DataOf(t), 1), Str(UnitOf(t)))

\* C4, as stated: when one of the four readings NO2, PM10, O3, PM2.5 is
\* null, aqi.value is NaN and aqi.qualitativeName is unset.
C4NullIsNaN ==
  (pc = "returned" /\ AnyReading("null")) => (AqiIsNaN /\ AqiUnset)

\* C4, amended: when one of the four readings is null, null counts as 0:
\* unless one of the four is undefined, aqi.value is the sum of the readings
\* that are numbers, divided by 4, and qualitativeName is the band of it;
\* aqi.value is NaN and qualitativeName unset only with an undefined reading.
C4NullCountsAsZero ==
  (pc = "returned" /\ AnyReading("null"))
  => IF AnyReading("undefined")
     THEN AqiIsNaN /\ AqiUnset
     ELSE /\ Equals(Aqi["value"], CountedSum, 4)
          /\ AqiNamed(Band(Aqi["value"]))

C4Witness ==
  /\ pc = "returned"
  /\ ReadingOf("NO2") = Null
  /\ ReadingOf("PM10") = Num(20, 1)
  /\ ReadingOf("O3") = Num(60, 1)
  /\ ReadingOf("PM2.5") = Num(10, 1)
  /\ Equals(Aqi["value"], 45, 2)
  /\ AqiNamed("very_low")

TestReadings ==
  /\ ReadingOf("NO2") = Num(40, 1)
  /\ ReadingOf("PM10") = Num(20, 1)
  /\ ReadingOf("O3") = Num(60, 1)
  /\ ReadingOf("PM2.5") = Num(10, 1)

\* C5, as stated: with the readings NO2 = 40, PM10 = 20, O3 = 60 and
\* PM2.5 = 10, aqi.value is 32.5 and aqi.qualitativeName is "medium".
C5Medium ==
  (pc = "returned" /\ TestReadings)
  => (Equals(Aqi["value"], 65, 2) /\ AqiNamed("medium"))

\* C5, amended: with the readings NO2 = 40, PM10 = 20, O3 = 60 and
\* PM2.5 = 10, aqi.value is 32.5 and aqi.qualitativeName is "low".
C5Low ==
  (pc = "returned" /\ TestReadings)
  => (Equals(Aqi["value"], 65, 2) /\ AqiNamed("low"))

C5Witness ==
  pc = "returned" /\ TestReadings /\ Equals(Aqi["value"], 65, 2)

\* C6: for every numeric mean of the four readings, the name left by the
\* overwriting checks is the band of the mutually exclusive ranges
\* (>= 100 very_high, 75 to 100 high, 50 to 75 medium, 25 to 50 low,
\* below 25 very_low).
C6BandOfRanges ==
  (pc = "returned" /\ IsNumber(Aqi["value"])) => AqiNamed(Band(Aqi["value"]))

C6Witness ==
  pc = "returned" /\ Equals(Aqi["value"], 75, 1) /\ AqiNamed("high")

\* The text is a decimal number from its first to its last character.
Numeric(p) ==
  /\ p.tag = "str"
  /\ Literal(p.s).found
  /\ Literal(p.s).len = Len(p.s)

\* The text begins with a decimal number: a digit, or a point and a digit,
\* after at most one sign.
BeginsWithNumber(p) ==
  /\ p.tag = "str"
  /\ LET s == p.s
         rest == IF s # <<>> /\ Head(s) \in {"-", "+"} THEN Tail(s) ELSE s
     IN \/ Len(rest) >= 1 /\ rest[1] \in Digits
        \/ Len(rest) >= 2 /\ rest[1] = "." /\ rest[2] \in Digits

Refused(word) ==
  /\ NoCallIssued
  /\ Responded => (response.status = 400 /\ Mentions(response.body, word))

\* C7, as stated: a lat that is missing or not numeric is refused with a 400
\* that mentions "latitude"; with a valid lat, a lng that is missing or not
\* numeric is refused with a 400 that mentions "longitude"; no upstream call
\* is issued in either case.
C7NonNumericRefused ==
  pc # "dispatched"
  => /\ ~Numeric(request.lat) => Refused("latitude")
     /\ (Numeric(request.lat) /\ ~Numeric(request.lng)) => Refused("longitude")

\* C7, amended: a lat that is missing or does not begin with a number is
\* refused with a 400 that mentions "latitude"; with a lat that begins with
\* a number, a lng that is missing or does not begin with a number is
\* refused with a 400 that mentions "longitude"; no upstream call is issued
\* in either case.
C7NoNumberRefused ==
  pc # "dispatched"
  => /\ ~BeginsWithNumber(request.lat) => Refused("latitude")
     /\ (BeginsWithNumber(request.lat) /\ ~BeginsWithNumber(request.lng))
          => Refused("longitude")

C7Witness ==
  /\ Responded
  /\ request.lat = Str(<<"-", "1">>)
  /\ request.lng = Str(<<"x", "1">>)
  /\ NoCallIssued
  /\ response.status = 400
  /\ Mentions(response.body, "longitude")

HasHeader(name, value) ==
  name \in DOMAIN response.headers /\ response.headers[name] = value

\* C8: every response sent, 200 or 400, carries content-type:
\* application/json, Access-Control-Allow-Origin: *,
\* Access-Control-Request-Method: GET, and Expires.
C8FourHeaders ==
  Responded
  => /\ HasHeader("content-type", "application/json")
     /\ HasHeader("access-control-allow-origin", "*")
     /\ HasHeader("access-control-request-method", "GET")
     /\ "expires" \in DOMAIN response.headers

\* C9: the reading get returns for a 2xx answer, whatever its body, has a
\* value that is a number or null, never undefined.
C9NumberOrNull ==
  \A t \in Types :
    calls[t].pc = "fulfilled" => ReadingOf(t).tag \in {"num", "null"}

\* The first instant on the hour strictly after t.
NextTopOfHour(t) == ((t \div TicksPerHour) + 1) * TicksPerHour

\* C10: the Expires header of a successful response is the first instant
\* with minutes and seconds 0 strictly after the moment the response was
\* produced, also when the clock crosses an hour or a day between the
\* listener's two reads of it.
C10ExpiresNextHour ==
  (Responded /\ response.status = 200)
  => response.headers["expires"] = NextTopOfHour(clock)

====
